---- MODULE Spec2Model ----
(***************************************************************************)
(* The in-memory weighted graph of webapp/backend/src/models/graph.rs:     *)
(* Graph::new, Graph::add_node, Graph::add_edge and Graph::shortest_path   *)
(* (Dijkstra over a BinaryHeap with lazy deletion, i32 costs).             *)
(***************************************************************************)
EXTENDS Integers, Sequences, FiniteSets, Bags

VARIABLES nodes, edges, lastCall

vars == <<nodes, edges, lastCall>>

(***************************************************************************)
(* Bounds of the model.                                                    *)
(***************************************************************************)
\* Bits of the cost type: i32 is modelled as a two's-complement integer of
\* Width bits, so that sums of the weights below can leave its range.
Width == 4

\* Largest number of add_edge calls in a behaviour of Spec.
MaxEdges == 2

\* Largest number of add_edge calls in a behaviour of SpecFrame.
MaxFrameEdges == 1

\* The node identifiers the callers pass.
NodeIds == {1, 2, 3}

\* The Node records add_node is called with in Spec: two for identifier 1;
\* identifiers 2 and 3 are never registered as a Node.
NodeInputs == {[id |-> 1, x |-> 0, y |-> 1], [id |-> 1, x |-> 1, y |-> 0]}

\* The Node records add_node is called with in SpecFrame: those of Spec and
\* one for identifier 2.
FrameNodeInputs == NodeInputs \cup {[id |-> 2, x |-> 1, y |-> 1]}

(***************************************************************************)
(* i32                                                                     *)
(***************************************************************************)
I32_MAX == 2^(Width - 1) - 1

I32_MIN == -(2^(Width - 1))

I32 == I32_MIN..I32_MAX

\* Two's-complement wrapping of an exact integer into i32.
Wrap(n) == ((n - I32_MIN) % (2^Width)) + I32_MIN

\* The weights the callers pass, all non-negative: zero, a small one and the
\* largest i32.
Weights == {0, 1, I32_MAX}

(***************************************************************************)
(* Node, Edge, State                                                       *)
(***************************************************************************)
Edge == [node_a_id : NodeIds, node_b_id : NodeIds, weight : Weights]

\* The priority queue item.
State(cost, position) == [cost |-> cost, position |-> position]

\* Variant of StateGe: the ordering on costs is not flipped, so that the
\* max-heap yields a most expensive item.
StateGeUnflipped(a, b) == a.cost >= b.cost

\* impl Ord for State: a is greater than or equal to b in the heap's order
\* when other.cost.cmp(&self.cost) is not Less, the position being ignored.
StateGe(a, b) == a.cost <= b.cost

(***************************************************************************)
(* HashMap                                                                 *)
(***************************************************************************)
\* HashMap::new()
EmptyMap == << >>

\* HashMap::insert(k, v): inserts or overwrites.
Insert(m, k, v) == [i \in (DOMAIN m) \cup {k} |-> IF i = k THEN v ELSE m[i]]

\* self.edges.entry(k).or_default().push(e)
PushEntry(m, k, e) == Insert(m, k, Append(IF k \in DOMAIN m THEN m[k] ELSE << >>, e))

(***************************************************************************)
(* Graph                                                                   *)
(***************************************************************************)
\* Variant of add_node: an entry already present is kept
\* (entry(id).or_insert(node)).
add_node_keep_first(ns, node) ==
  IF node.id \in DOMAIN ns THEN ns ELSE Insert(ns, node.id, node)

\* Graph::add_node
add_node(ns, node) == Insert(ns, node.id, node)

\* Variant of add_edge: the reverse arc is not stored.
add_edge_one_way(es, edge) == PushEntry(es, edge.node_a_id, edge)

\* Graph::add_edge: the arc a->b, then the synthesized reverse arc b->a.
add_edge(es, edge) ==
  LET reverse_edge == [node_a_id |-> edge.node_b_id,
                       node_b_id |-> edge.node_a_id,
                       weight |-> edge.weight]
  IN PushEntry(PushEntry(es, edge.node_a_id, edge), reverse_edge.node_a_id, reverse_edge)

\* Variant of Unreachable: the least i32 in place of the greatest.
UnreachableAsMin == I32_MIN

\* The value returned when the heap empties (line 124).
Unreachable == I32_MAX

\* What a call of shortest_path can end in: a returned i32, or the panic
\* "attempt to add with overflow" of a build with overflow checks.
Returned(v) == [panic |-> FALSE, value |-> v]

Panicked == [panic |-> TRUE, value |-> 0]

\* BinaryHeap::pop yields a greatest item of the heap under Ord for State;
\* which of several items of equal cost it yields is left open here.
Tops(heap) == {s \in BagToSet(heap) : \A t \in BagToSet(heap) : StateGe(s, t)}

\* The for loop over the arcs of the popped position (lines 104-119),
\* from the i-th arc on.  cost + edge.weight panics in a build with overflow
\* checks and wraps in one without.
RECURSIVE Relax(_, _, _, _, _, _)
Relax(checks, arcs, i, cost, distances, heap) ==
  IF i > Len(arcs)
  THEN [panic |-> FALSE, distances |-> distances, heap |-> heap]
  ELSE LET edge == arcs[i]
           sum == cost + edge.weight
       IN IF sum \notin I32 /\ checks
          THEN [panic |-> TRUE, distances |-> distances, heap |-> heap]
          ELSE LET next == State(Wrap(sum), edge.node_b_id)
                   is_shorter == IF next.position \in DOMAIN distances
                                 THEN next.cost < distances[next.position]
                                 ELSE TRUE
               IN IF is_shorter
                  THEN Relax(checks, arcs, i + 1, cost,
                             Insert(distances, next.position, next.cost),
                             heap (+) SetToBag({next}))
                  ELSE Relax(checks, arcs, i + 1, cost, distances, heap)

\* The search state between two iterations of the while loop, and the
\* outcome once the call has ended.
Running(distances, heap) ==
  [done |-> FALSE, ret |-> Returned(0), distances |-> distances, heap |-> heap]

Ended(ret) ==
  [done |-> TRUE, ret |-> ret, distances |-> EmptyMap, heap |-> EmptyBag]

\* Variant of Iterate: an item is skipped when its cost is greater than or
\* equal to the recorded one (>= for >).
IterateStaleGe(checks, es, to_node_id, distances, heap, s) ==
  LET rest == heap (-) SetToBag({s})
  IN IF s.position = to_node_id
     THEN Ended(Returned(s.cost))
     ELSE IF s.position \in DOMAIN distances /\ s.cost >= distances[s.position]
     THEN Running(distances, rest)
     ELSE IF s.position \in DOMAIN es
     THEN LET r == Relax(checks, es[s.position], 1, s.cost, distances, rest)
          IN IF r.panic THEN Ended(Panicked) ELSE Running(r.distances, r.heap)
     ELSE Running(distances, rest)

\* One iteration of the while loop (lines 89-121) with s the item popped.
Iterate(checks, es, to_node_id, distances, heap, s) ==
  LET rest == heap (-) SetToBag({s})
  IN IF s.position = to_node_id
     THEN Ended(Returned(s.cost))
     ELSE IF s.position \in DOMAIN distances /\ s.cost > distances[s.position]
     THEN Running(distances, rest)
     ELSE IF s.position \in DOMAIN es
     THEN LET r == Relax(checks, es[s.position], 1, s.cost, distances, rest)
          IN IF r.panic THEN Ended(Panicked) ELSE Running(r.distances, r.heap)
     ELSE Running(distances, rest)

\* The while loop (lines 89-124) from each search state of `running`: the
\* outcomes over the heap's choices among items of equal cost.  An empty
\* heap ends the loop and the call returns i32::MAX.
RECURSIVE Dijkstra(_, _, _, _)
Dijkstra(checks, es, to_node_id, running) ==
  IF running = {} THEN {}
  ELSE LET after == UNION {
             IF st.heap = EmptyBag
             THEN {Ended(Returned(Unreachable))}
             ELSE {Iterate(checks, es, to_node_id, st.distances, st.heap, s)
                     : s \in Tops(st.heap)}
             : st \in running}
       IN {st.ret : st \in {x \in after : x.done}}
            \cup Dijkstra(checks, es, to_node_id, {x \in after : ~x.done})

\* Variant of shortest_path: identifiers without a Node entry are answered
\* with the sentinel before any search.
shortest_path_known_only(checks, ns, es, from_node_id, to_node_id) ==
  IF from_node_id \notin DOMAIN ns \/ to_node_id \notin DOMAIN ns
  THEN {Returned(Unreachable)}
  ELSE Dijkstra(checks, es, to_node_id,
                {Running(Insert(EmptyMap, from_node_id, 0),
                         SetToBag({State(0, from_node_id)}))})

\* Graph::shortest_path: every outcome the call can have on the graph.
shortest_path(checks, ns, es, from_node_id, to_node_id) ==
  Dijkstra(checks, es, to_node_id,
           {Running(Insert(EmptyMap, from_node_id, 0),
                    SetToBag({State(0, from_node_id)}))})

(***************************************************************************)
(* The state machine                                                       *)
(***************************************************************************)
\* The last call and what it gave back.  add_node records the entry that
\* HashMap::insert displaced, which the code drops.
AfterNew == [op |-> "new"]

AfterAddNode(node, displaced) ==
  [op |-> "add_node", node |-> node, displaced |-> displaced]

AfterAddEdge == [op |-> "add_edge"]

AfterShortestPath(from_node_id, to_node_id, ret) ==
  [op |-> "shortest_path", from |-> from_node_id, to |-> to_node_id, ret |-> ret]

\* Number of arcs stored in the lists of the identifiers in S.
RECURSIVE ArcCount(_, _)
ArcCount(es, S) ==
  IF S = {} THEN 0
  ELSE LET k == CHOOSE k \in S : TRUE IN Len(es[k]) + ArcCount(es, S \ {k})

\* Graph::new
Init ==
  /\ nodes = EmptyMap
  /\ edges = EmptyMap
  /\ lastCall = AfterNew

\* A call of add_node with one of the records of `inputs`.
AddNodeOf(inputs) ==
  \E node \in inputs :
    /\ nodes' = add_node(nodes, node)
    /\ lastCall' = AfterAddNode(node, IF node.id \in DOMAIN nodes
                                      THEN <<nodes[node.id]>> ELSE << >>)
    /\ UNCHANGED edges

\* A call of add_edge, as long as fewer than `limit` calls were made: each
\* call stores two arcs.
AddEdgeUpTo(limit) ==
  /\ ArcCount(edges, DOMAIN edges) < 2 * limit
  /\ \E edge \in Edge :
       /\ edges' = add_edge(edges, edge)
       /\ lastCall' = AfterAddEdge
  /\ UNCHANGED nodes

AddNode == AddNodeOf(NodeInputs)

AddEdge == AddEdgeUpTo(MaxEdges)

\* A call of shortest_path, in a build with or without overflow checks.
ShortestPath ==
  \E from_node_id \in NodeIds, to_node_id \in NodeIds, checks \in BOOLEAN :
    \E ret \in shortest_path(checks, nodes, edges, from_node_id, to_node_id) :
      /\ lastCall' = AfterShortestPath(from_node_id, to_node_id, ret)
      /\ UNCHANGED <<nodes, edges>>

Next == AddNode \/ AddEdge \/ ShortestPath

Spec == Init /\ [][Next]_vars

\* The same operations with fewer edges and more Node records, for the
\* properties of add_node.
AddNodeFrame == AddNodeOf(FrameNodeInputs)

AddEdgeFrame == AddEdgeUpTo(MaxFrameEdges)

NextFrame == AddNodeFrame \/ AddEdgeFrame \/ ShortestPath

SpecFrame == Init /\ [][NextFrame]_vars

(***************************************************************************)
(* Reference notions the properties are stated with: arcs, paths and the   *)
(* least path sum as an exact integer, independent of the search.          *)
(***************************************************************************)
\* The weights of the arcs stored in a's list with target b.
ArcWeights(es, a, b) ==
  IF a \in DOMAIN es
  THEN {es[a][i].weight : i \in {k \in 1..Len(es[a]) : es[a][k].node_b_id = b}}
  ELSE {}

\* How many arcs with target b and weight w are stored in a's list.
ArcMultiplicity(es, a, b, w) ==
  IF a \in DOMAIN es
  THEN Cardinality({i \in 1..Len(es[a]) :
                      es[a][i].node_b_id = b /\ es[a][i].weight = w})
  ELSE 0

Least(S) == CHOOSE m \in S : \A n \in S : m <= n

\* The paths from a to b: sequences of distinct identifiers, each linked to
\* the next by a stored arc.  <<a>> is the path from a to a.
Paths(es, a, b) ==
  {p \in UNION {[1..n -> NodeIds] : n \in 1..Cardinality(NodeIds)} :
     /\ p[1] = a
     /\ p[Len(p)] = b
     /\ \A i, k \in 1..Len(p) : i # k => p[i] # p[k]
     /\ \A i \in 1..(Len(p) - 1) : ArcWeights(es, p[i], p[i + 1]) # {}}

\* The least sum of arc weights along the path p, as an exact integer.
RECURSIVE PathSum(_, _, _)
PathSum(es, p, i) ==
  IF i >= Len(p) THEN 0
  ELSE Least(ArcWeights(es, p[i], p[i + 1])) + PathSum(es, p, i + 1)

Connected(es, a, b) == Paths(es, a, b) # {}

\* The minimum over all paths from a to b of the sum of the arc weights.
MinPathSum(es, a, b) == Least({PathSum(es, p, 1) : p \in Paths(es, a, b)})

NonNegative(es) ==
  \A a \in DOMAIN es : \A i \in 1..Len(es[a]) : es[a][i].weight >= 0

\* Every sum a search from a can form is within i32: the least path sum to
\* a node v connected to a, plus the weight of an arc leaving v.
SumsInRange(es, a) ==
  \A v \in DOMAIN es :
    Connected(es, a, v) =>
      \A i \in 1..Len(es[v]) : MinPathSum(es, a, v) + es[v][i].weight <= I32_MAX

IsQuery == lastCall.op = "shortest_path"

C2_UnreachableReturnsSentinel ==
  (/\ IsQuery
   /\ NonNegative(edges)
   /\ lastCall.from # lastCall.to
   /\ ~Connected(edges, lastCall.from, lastCall.to))
  => lastCall.ret = Returned(I32_MAX)

\* C2, where every sum the search can form is within i32: the call returns
\* i32::MAX.
C2_UnreachableReturnsSentinelInRange ==
  (/\ IsQuery
   /\ NonNegative(edges)
   /\ SumsInRange(edges, lastCall.from)
   /\ lastCall.from # lastCall.to
   /\ ~Connected(edges, lastCall.from, lastCall.to))
  => lastCall.ret = Returned(I32_MAX)

\* C3: every arc stored in the list of a with target b and weight w has a as
\* its source, and the list of b stores as many arcs with target a and
\* weight w as the list of a stores arcs with target b and weight w.
C3_Symmetry ==
  \A a \in DOMAIN edges : \A i \in 1..Len(edges[a]) :
    LET e == edges[a][i]
    IN /\ e.node_a_id = a
       /\ ArcMultiplicity(edges, e.node_b_id, a, e.weight) >= 1
       /\ ArcMultiplicity(edges, e.node_b_id, a, e.weight)
            = ArcMultiplicity(edges, a, e.node_b_id, e.weight)

\* Two parallel edges of different weights between distinct identifiers
\* have been inserted.
C3_Witness ==
  \E a, b \in NodeIds :
    /\ a # b
    /\ Cardinality(ArcWeights(edges, a, b)) >= 2
    /\ Cardinality(ArcWeights(edges, b, a)) >= 2

\* C4: shortest_path(n, n) returns 0 for every id n, in every graph and in
\* either build, whether or not n has a Node entry, arcs or a self-loop.
C4_SelfDistanceZero ==
  /\ (IsQuery /\ lastCall.from = lastCall.to) => lastCall.ret = Returned(0)
  /\ \A n \in NodeIds, checks \in BOOLEAN :
       shortest_path(checks, nodes, edges, n, n) = {Returned(0)}

\* shortest_path(n, n) has returned 0 for an id with a self-loop and no
\* Node entry.
C4_Witness ==
  /\ IsQuery
  /\ lastCall.from = lastCall.to
  /\ lastCall.from \notin DOMAIN nodes
  /\ ArcWeights(edges, lastCall.from, lastCall.from) # {}
  /\ lastCall.ret = Returned(0)

\* C5: in a graph of non-negative weights, for every pair (s, t) and in
\* either build, shortest_path(s, t) and shortest_path(t, s) have the same
\* outcome.
C5_QuerySymmetry ==
  NonNegative(edges) =>
    \A s, t \in NodeIds, checks \in BOOLEAN :
      \A o1 \in shortest_path(checks, nodes, edges, s, t),
         o2 \in shortest_path(checks, nodes, edges, t, s) : o1 = o2

\* C5, for the pairs where every sum a search from s or from t can form is
\* within i32.
C5_QuerySymmetryInRange ==
  NonNegative(edges) =>
    \A s, t \in NodeIds, checks \in BOOLEAN :
      (SumsInRange(edges, s) /\ SumsInRange(edges, t)) =>
        \A o1 \in shortest_path(checks, nodes, edges, s, t),
           o2 \in shortest_path(checks, nodes, edges, t, s) : o1 = o2

\* C6: in a graph of non-negative weights, for any three ids a, b, c whose
\* three queries return, the integer returned by shortest_path(a, c) is at
\* most the exact sum of those returned by shortest_path(a, b) and
\* shortest_path(b, c).
C6_TriangleInequality ==
  NonNegative(edges) =>
    \A a, b, c \in NodeIds, checks \in BOOLEAN :
      \A oac \in shortest_path(checks, nodes, edges, a, c),
         oab \in shortest_path(checks, nodes, edges, a, b),
         obc \in shortest_path(checks, nodes, edges, b, c) :
        (~oac.panic /\ ~oab.panic /\ ~obc.panic)
          => oac.value <= oab.value + obc.value

\* C6, for the triples where every sum a search from a or from b can form
\* is within i32.
C6_TriangleInequalityInRange ==
  NonNegative(edges) =>
    \A a, b, c \in NodeIds, checks \in BOOLEAN :
      (SumsInRange(edges, a) /\ SumsInRange(edges, b)) =>
        \A oac \in shortest_path(checks, nodes, edges, a, c),
           oab \in shortest_path(checks, nodes, edges, a, b),
           obc \in shortest_path(checks, nodes, edges, b, c) :
          /\ ~oac.panic /\ ~oab.panic /\ ~obc.panic
          /\ oac.value <= oab.value + obc.value

C8_SentinelOnlyWhenUnreachable ==
  (/\ IsQuery
   /\ NonNegative(edges)
   /\ ~lastCall.ret.panic
   /\ Connected(edges, lastCall.from, lastCall.to))
  => lastCall.ret.value < I32_MAX

\* C8 as amended: with non-negative weights, shortest_path returns i32::MAX
\* only if no path from `from` to `to` exists or the minimum path sum is
\* exactly i32::MAX.
C8_SentinelOrMaxCost ==
  (/\ IsQuery
   /\ NonNegative(edges)
   /\ lastCall.ret = Returned(I32_MAX))
  => \/ ~Connected(edges, lastCall.from, lastCall.to)
     \/ MinPathSum(edges, lastCall.from, lastCall.to) = I32_MAX

\* A query between two ids joined by a path has returned i32::MAX, the
\* minimum path sum.
C8_Witness ==
  /\ IsQuery
  /\ lastCall.from # lastCall.to
  /\ Connected(edges, lastCall.from, lastCall.to)
  /\ MinPathSum(edges, lastCall.from, lastCall.to) = I32_MAX
  /\ lastCall.ret = Returned(I32_MAX)

\* C9: no call of shortest_path ends in an error outcome.
C9_NoErrorOutcome == IsQuery => ~lastCall.ret.panic

\* C10: a call add_node(node) leaves the node mapping holding `node` under
\* node.id and every other entry as it was, leaves the adjacency mapping
\* unchanged and changes the outcome of no shortest_path query; add_edge
\* and shortest_path leave the node mapping unchanged, and shortest_path
\* the adjacency mapping too.
C10_Step ==
  /\ lastCall'.op = "add_node" =>
       /\ DOMAIN nodes' = (DOMAIN nodes) \cup {lastCall'.node.id}
       /\ nodes'[lastCall'.node.id] = lastCall'.node
       /\ \A id \in (DOMAIN nodes) \ {lastCall'.node.id} : nodes'[id] = nodes[id]
       /\ edges' = edges
       /\ \A from_node_id, to_node_id \in NodeIds, checks \in BOOLEAN :
            shortest_path(checks, nodes', edges', from_node_id, to_node_id)
              = shortest_path(checks, nodes, edges, from_node_id, to_node_id)
  /\ lastCall'.op = "add_edge" => nodes' = nodes
  /\ lastCall'.op = "shortest_path" => (nodes' = nodes /\ edges' = edges)

C10_AddNodeLastWriteWins == [][C10_Step]_vars

\* add_node has replaced an entry by a Node of other coordinates, in a graph
\* that holds an edge and a Node of another id.
C10_Witness ==
  /\ lastCall.op = "add_node"
  /\ lastCall.displaced # << >>
  /\ lastCall.displaced[1] # lastCall.node
  /\ nodes[lastCall.node.id] = lastCall.node
  /\ DOMAIN nodes # {lastCall.node.id}
  /\ edges # EmptyMap

====
